---- MODULE Spec2Model ----
(***************************************************************************)
(* Model of modules/aggregation/custom/alerting_dispatcher.py:             *)
(* AlertingDispatcher.run and the rule processing it drives                *)
(* (_process_configuration, _process_email_configuration), together with   *)
(* the two collaborators it calls: the alert queue (fetch_alerts /         *)
(* add_alerts) and the mail Dispatcher (open, three send operations).      *)
(***************************************************************************)
EXTENDS Integers, Sequences, FiniteSets, TLC

VARIABLES
    configurations, \* module_configuration.settings['configurations']
    store,          \* the alert queue: pending alerts, in insertion order
    pc,             \* position of the run
    idx,            \* position of the for loop of run in the rule list
    runs,           \* number of invocations of run so far, counted up to MaxRuns
    frame,          \* locals of _process_email_configuration
    caught,         \* the error bound by "except ... as error"
    error,          \* the exception propagating out of rule processing
    logFile,        \* the NamedTemporaryFile of the rule
    connOpen,       \* whether the Dispatcher connection is open
    calls,          \* calls and prints made by the current run, in order
    delivered,      \* ids of the alerts that were part of a successful send
    requeued,       \* ids of the alerts that were handed back to the queue
    otherBatch      \* the batch another consumer of the queue has fetched

vars == <<configurations, store, pc, idx, runs, frame, caught, error,
          logFile, connOpen, calls, delivered, requeued, otherBatch>>

(***************************************************************************)
(* Bounds                                                                  *)
(***************************************************************************)
NumAlerts == 3
MaxRules == 3
MaxRuns == 2
MaxDeviations == 3

(***************************************************************************)
(* Python values: a value carries its type; a key that is not in a dict    *)
(* is the value Absent, the value None is NoneVal.                         *)
(***************************************************************************)
Absent == [t |-> "absent"]
NoneVal == [t |-> "None"]
PyStr(s) == [t |-> "str", v |-> s]
PyInt(n) == [t |-> "int", v |-> n]
PyList(l) == [t |-> "list", v |-> l]
PyDict(d) == [t |-> "dict", v |-> d]
\* a value of a type that none of the checks accepts
Mistyped == [t |-> "other"]

\* 'k' in d and type(d['k']) is ty
Has(val, ty) == val.t = ty

IsNone(val) == val.t = "None"

(***************************************************************************)
(* Exceptions: a class name and the message, as the pieces it is built of. *)
(***************************************************************************)
NoError == [type |-> "None", msg |-> <<>>]
ConfigurationMissingError(m) == [type |-> "ConfigurationMissingError", msg |-> <<m>>]
ConfigurationInvalidError(m) == [type |-> "ConfigurationInvalidError", msg |-> m]

\* str(error)
StrOfError(e) == e.msg

\* 'Invalid alert type "{}"'.format(alert_type)
FormatInvalidType(alert_type) == <<"Invalid alert type \"", alert_type, "\"">>

\* the errors the transport raises that line 171 names
TransportErrors ==
    { [type |-> "ConnectionError", msg |-> <<"connection refused">>],
      [type |-> "DispatcherException", msg |-> <<"delivery failed">>] }

\* an exception of a class that line 171 does not name
OtherError == [type |-> "OSError", msg |-> <<"unexpected failure">>]

\* IsCaught with DispatcherException left out of the except clause
IsCaughtConnectionOnly(e) == e.type \in {"ConnectionError"}

\* except (ConnectionError, DispatcherException) as error
IsCaught(e) == e.type \in {"ConnectionError", "DispatcherException"}


\* IsDataAlreadyExist that matches every exception
IsDataAlreadyExistAny(e) == e.type # "None"

\* except _DataAlreadyExistError
IsDataAlreadyExist(e) == e.type = "_DataAlreadyExistError"

(***************************************************************************)
(* Alerts. The alert with id i is the record AlertRec(i); the queue holds  *)
(* such records.                                                           *)
(***************************************************************************)
EmptyDict == [k \in {} |-> ""]

AlertRec(i) ==
    [ id |-> i,
      group |-> IF i % 2 = 1 THEN "g1" ELSE "g2",
      date |-> [epoch |-> i],
      message |-> IF i % 2 = 1 THEN "disk full" ELSE "job failed",
      data |-> CASE i % 3 = 1 -> PyDict(EmptyDict)
                 [] i % 3 = 2 -> PyDict([k |-> "v"])
                 [] OTHER -> NoneVal ]

AllAlerts == [i \in 1..NumAlerts |-> AlertRec(i)]

Range(s) == {s[i] : i \in DOMAIN s}

Ids(s) == {s[i].id : i \in DOMAIN s}

\* number of entries of the sequence s with the id of alert a
Copies(s, a) == Cardinality({i \in DOMAIN s : s[i].id = a.id})

(***************************************************************************)
(* The alert queue (service.alerting.AlertQueue).                          *)
(***************************************************************************)
InGroups(a, groups) == \E j \in DOMAIN groups : groups[j] = a.group

\* fetch_alerts(groups): the pending alerts of the groups, in queue order
FetchResult(queue, groups) == SelectSeq(queue, LAMBDA a : InGroups(a, groups))

\* what fetch_alerts(groups) leaves in the queue
FetchRemainder(queue, groups) == SelectSeq(queue, LAMBDA a : ~InGroups(a, groups))

\* add_alerts(alerts)
AddAlertsResult(queue, alerts) == queue \o alerts

(***************************************************************************)
(* _process_configuration, lines 44-52: the check of the rule's type.      *)
(* NoError when the rule goes on to _process_email_configuration.          *)
(***************************************************************************)
TypeCheck(rule) ==
    IF Has(rule.type, "str")
    THEN IF rule.type.v = "email"
         THEN NoError
         ELSE ConfigurationInvalidError(FormatInvalidType(rule.type.v))
    ELSE ConfigurationMissingError("Missing \"type\" for alert dispatch configuration")

(***************************************************************************)
(* _process_email_configuration, lines 59-86: the smtp block.              *)
(***************************************************************************)
\* SmtpCheck without the check of the password
SmtpCheckNoPassword(rule) ==
    IF Has(rule.smtp, "dict")
    THEN LET smtp_configuration == rule.smtp.v IN
         IF ~Has(smtp_configuration.host, "str")
         THEN ConfigurationMissingError("Missing host in alert mail smtp configuration")
         ELSE IF ~Has(smtp_configuration.port, "int")
         THEN ConfigurationMissingError("Missing port in alert mail smtp configuration")
         ELSE IF ~Has(smtp_configuration.user, "str")
         THEN ConfigurationMissingError("Missing user in alert mail smtp configuration")
         ELSE NoError
    ELSE ConfigurationMissingError("Missing smtp configuration")

SmtpCheck(rule) ==
    IF Has(rule.smtp, "dict")
    THEN LET smtp_configuration == rule.smtp.v IN
         IF ~Has(smtp_configuration.host, "str")
         THEN ConfigurationMissingError("Missing host in alert mail smtp configuration")
         ELSE IF ~Has(smtp_configuration.port, "int")
         THEN ConfigurationMissingError("Missing port in alert mail smtp configuration")
         ELSE IF ~Has(smtp_configuration.user, "str")
         THEN ConfigurationMissingError("Missing user in alert mail smtp configuration")
         ELSE IF ~Has(smtp_configuration.password, "str")
         THEN ConfigurationMissingError("Missing user in alert mail smtp configuration")
         ELSE NoError
    ELSE ConfigurationMissingError("Missing smtp configuration")

\* lines 105-109: a template path is the string of the rule, else None
TemplatePath(val) == IF Has(val, "str") THEN val ELSE NoneVal

(***************************************************************************)
(* _process_email_configuration, lines 59-120: the error the validation    *)
(* raises, NoError when it reaches fetch_alerts.                           *)
(***************************************************************************)
EmailCheck(rule) ==
    IF SmtpCheck(rule) # NoError
    THEN SmtpCheck(rule)
    ELSE IF ~Has(rule.subject, "str")
    THEN ConfigurationMissingError("Missing subject in alert configuration")
    ELSE IF ~Has(rule.fromEmail, "str")
    THEN ConfigurationMissingError("Missing from email in alert configuration")
    ELSE IF ~(Has(rule.toEmail, "str") \/ Has(rule.toEmail, "list"))
    THEN ConfigurationMissingError("Missing to email in alert configuration")
    ELSE IF IsNone(TemplatePath(rule.templateHtml)) /\ IsNone(TemplatePath(rule.templateText))
    THEN ConfigurationMissingError("You at least have to provide a html or text email template")
    ELSE IF ~Has(rule.groups, "list")
    THEN ConfigurationMissingError("Missing groups to fetch alerts for")
    ELSE NoError

\* ValidationError with the email fields checked before the type
ValidationErrorEmailFirst(rule) ==
    IF EmailCheck(rule) # NoError THEN EmailCheck(rule) ELSE TypeCheck(rule)

\* the exception _process_configuration raises before any call, if any
ValidationError(rule) ==
    IF TypeCheck(rule) # NoError THEN TypeCheck(rule) ELSE EmailCheck(rule)

\* lines 55, 114-115: the rule's templateVariables dict, else a new dict
TemplateVariables(rule) ==
    IF Has(rule.templateVariables, "dict") THEN rule.templateVariables.v ELSE EmptyDict

NoFrame == [live |-> FALSE]

\* the locals of _process_email_configuration when validation has passed
EmailFrame(rule) ==
    [ live |-> TRUE,
      host |-> rule.smtp.v.host,
      port |-> rule.smtp.v.port,
      user |-> rule.smtp.v.user,
      password |-> rule.smtp.v.password,
      encryption |-> IF Has(rule.smtp.v.encryption, "str")
                     THEN rule.smtp.v.encryption ELSE NoneVal,
      subject |-> rule.subject,
      from_email |-> rule.fromEmail,
      to_email |-> rule.toEmail,
      template_html_path |-> TemplatePath(rule.templateHtml),
      template_text_path |-> TemplatePath(rule.templateText),
      template_variables |-> TemplateVariables(rule),
      groups |-> rule.groups.v,
      alerts |-> <<>> ]

(***************************************************************************)
(* Rules: the raw mappings of settings['configurations'].  TextRule is a   *)
(* valid rule; the rules of a check differ from it in some fields.         *)
(***************************************************************************)
TextRule ==
    [ type |-> PyStr("email"),
      smtp |-> PyDict([ host |-> PyStr("mail.example.org"),
                        port |-> PyInt(25),
                        user |-> PyStr("alerts"),
                        password |-> PyStr("secret"),
                        encryption |-> Absent ]),
      subject |-> PyStr("Alerts"),
      fromEmail |-> PyStr("dawis@example.org"),
      toEmail |-> PyStr("ops@example.org"),
      templateHtml |-> Absent,
      templateText |-> PyStr("alerts.txt"),
      templateVariables |-> Absent,
      groups |-> PyList(<<"g1">>) ]

HtmlRule ==
    [TextRule EXCEPT !.templateHtml = PyStr("alerts.html"),
                     !.templateText = Absent,
                     !.templateVariables = PyDict([title |-> PyStr("Alerts")]),
                     !.groups = PyList(<<"g2">>)]

BothRule ==
    [TextRule EXCEPT !.templateHtml = PyStr("alerts.html"),
                     !.toEmail = PyList(<<"ops@example.org", "dev@example.org">>),
                     !.templateVariables = PyDict([title |-> PyStr("Alerts"),
                                                   alerts |-> PyList(<<>>)]),
                     !.groups = PyList(<<"g1", "g2">>)]

NoSubjectRule == [TextRule EXCEPT !.subject = Absent]

SmsRule == [TextRule EXCEPT !.type = PyStr("sms")]

RuleSamples == {TextRule, HtmlRule, BothRule, NoSubjectRule, SmsRule}

SmtpFields == {"host", "port", "user", "password", "encryption"}

TopFields == {"type", "smtp", "subject", "fromEmail", "toEmail", "templateHtml",
              "templateText", "templateVariables", "groups"}

\* the values a field takes in the rules of a check, besides TextRule's
FieldValues(f) ==
    CASE f = "type" -> <<Absent, Mistyped, PyStr("sms")>>
      [] f = "toEmail" -> <<Absent, Mistyped, PyList(<<"ops@example.org">>)>>
      [] f = "templateHtml" -> <<Mistyped, PyStr("alerts.html")>>
      [] f = "encryption" -> <<Mistyped, PyStr("ssl")>>
      [] f = "templateVariables" -> <<Mistyped, PyDict([title |-> PyStr("Alerts")])>>
      [] f = "groups" -> <<Absent, Mistyped, PyList(<<>>), PyList(<<"g1", "g2">>)>>
      [] OTHER -> <<Absent, Mistyped>>

SetField(rule, f, val) ==
    IF f \in SmtpFields
    THEN IF Has(rule.smtp, "dict") THEN [rule EXCEPT !.smtp.v[f] = val] ELSE rule
    ELSE [rule EXCEPT ![f] = val]

FieldOrder ==
    <<"type", "smtp", "host", "port", "user", "password", "encryption", "subject",
      "fromEmail", "toEmail", "templateHtml", "templateText", "templateVariables",
      "groups">>

\* rule with the fields of D, from the k-th of FieldOrder on, set to the
\* values that pick chooses among FieldValues
RECURSIVE Deviate(_, _, _, _)
Deviate(rule, D, pick, k) ==
    IF k > Len(FieldOrder)
    THEN rule
    ELSE LET f == FieldOrder[k]
             values == FieldValues(f)
         IN Deviate(IF f \in D
                    THEN SetField(rule, f, values[((pick[f] - 1) % Len(values)) + 1])
                    ELSE rule,
                    D, pick, k + 1)

\* the sets of at most n fields
FieldSets(n) == {D \in SUBSET (TopFields \cup SmtpFields) : Cardinality(D) <= n}

(***************************************************************************)
(* Initial states.  The rule list is read from the configuration when the  *)
(* module is constructed; the queue holds some of the alerts.              *)
(***************************************************************************)
RECURSIVE SeqsUpTo(_, _)
SeqsUpTo(S, n) ==
    IF n = 0
    THEN {<<>>}
    ELSE LET shorter == SeqsUpTo(S, n - 1) IN
         shorter \cup { Append(q, x) : q \in shorter, x \in S }

InitialStores == { SubSeq(AllAlerts, 1, k) : k \in 0..NumAlerts }

InitRest ==
    /\ pc = "loop"
    /\ idx = 1
    /\ runs = 1
    /\ frame = NoFrame
    /\ caught = NoError
    /\ error = NoError
    /\ logFile = Absent
    /\ connOpen = FALSE
    /\ calls = <<>>
    /\ delivered = {}
    /\ requeued = {}
    /\ otherBatch = <<>>

\* run over a rule list of sample rules, or over settings without a list
Init ==
    /\ configurations \in {Absent} \cup { PyList(q) : q \in SeqsUpTo(RuleSamples, MaxRules) }
    /\ store \in InitialStores
    /\ InitRest

\* run over one rule, any rule that differs from TextRule in a few fields
ValInit ==
    /\ \E D \in FieldSets(MaxDeviations) : \E pick \in [D -> 1..4] :
          configurations = PyList(<<Deviate(TextRule, D, pick, 1)>>)
    /\ store = AllAlerts
    /\ InitRest

\* run over a list of rules that all pass validation
LiveInit ==
    /\ Init
    /\ Has(configurations, "list")
    /\ \A i \in DOMAIN configurations.v : ValidationError(configurations.v[i]) = NoError

(***************************************************************************)
(* The record of what the run called and printed.                          *)
(***************************************************************************)
Event(op, arg, res) == [op |-> op, rule |-> idx, arg |-> arg, res |-> res]

RaiseEvent(e) == Event("raise", e, e)

(***************************************************************************)
(* Lines 128-138: the line written to the attachment for one alert, as     *)
(* the pieces it is concatenated from.                                     *)
(***************************************************************************)
Text(s) == [k |-> "text", s |-> s]
IsoFormat(date) == [k |-> "isoformat", date |-> date]
StrOfData(data) == [k |-> "str", data |-> data]


\* LogItem that appends the data of every alert whose data is a dict
LogItemEveryDict(alert) ==
    <<Text("["), IsoFormat(alert.date), Text("] "), Text(alert.message)>>
    \o (IF Has(alert.data, "dict")
        THEN <<Text(" | "), StrOfData(alert.data.v)>>
        ELSE <<>>)

LogItem(alert) ==
    <<Text("["), IsoFormat(alert.date), Text("] "), Text(alert.message)>>
    \o (IF Has(alert.data, "dict") /\ 0 < Cardinality(DOMAIN alert.data.v)
        THEN <<Text(" | "), StrOfData(alert.data.v)>>
        ELSE <<>>)

RECURSIVE LogLines(_)
LogLines(alerts) ==
    IF alerts = <<>>
    THEN <<>>
    ELSE <<LogItem(Head(alerts)) \o <<Text("linesep")>>>> \o LogLines(Tail(alerts))

\* lines 127-140: the temporary file once written and flushed
WrittenLogFile(alerts) ==
    [t |-> "file", name |-> "tmp.log", lines |-> LogLines(alerts), flushed |-> TRUE]

\* WithAlerts that keeps an "alerts" entry the dict already has
WithAlertsKeepPrior(template_variables, alerts) ==
    [k \in DOMAIN template_variables \cup {"alerts"} |->
        IF k \in DOMAIN template_variables THEN template_variables[k] ELSE PyList(alerts)]


\* WithAlerts that builds a new dict holding the alerts alone
WithAlertsOnly(template_variables, alerts) ==
    [k \in {"alerts"} |-> PyList(alerts)]

\* line 125: template_variables['alerts'] = alerts
WithAlerts(template_variables, alerts) ==
    [k \in DOMAIN template_variables \cup {"alerts"} |->
        IF k = "alerts" THEN PyList(alerts) ELSE template_variables[k]]

(***************************************************************************)
(* Lines 144-170: the send operation chosen and what it is called with.    *)
(***************************************************************************)
\* SendOperation with the html-only and the combined branch exchanged
SendOperationSwapped(f) ==
    IF IsNone(f.template_html_path)
    THEN "send_text_email"
    ELSE IF IsNone(f.template_text_path)
         THEN "send_email"
         ELSE "send_html_email"

SendOperation(f) ==
    IF IsNone(f.template_html_path)
    THEN "send_text_email"
    ELSE IF IsNone(f.template_text_path)
         THEN "send_html_email"
         ELSE "send_email"

SendTemplates(f) ==
    IF IsNone(f.template_html_path)
    THEN <<f.template_text_path>>
    ELSE IF IsNone(f.template_text_path)
         THEN <<f.template_html_path>>
         ELSE <<f.template_html_path, f.template_text_path>>

SendArguments(f) ==
    [ from_email |-> f.from_email,
      to_email |-> f.to_email,
      subject |-> f.subject,
      templates |-> SendTemplates(f),
      variables |-> f.template_variables,
      attachments |-> [name |-> "alerts.log", file |-> logFile] ]

DispatcherArguments(f) ==
    [ host |-> f.host, port |-> f.port, user |-> f.user,
      password |-> f.password, encryption |-> f.encryption ]

(***************************************************************************)
(* run, lines 32-36, and _process_configuration up to fetch_alerts, lines  *)
(* 43-120: the next rule of the list is validated; it raises or goes on.   *)
(***************************************************************************)
HasRule == Has(configurations, "list") /\ idx <= Len(configurations.v)

ProcessConfiguration ==
    /\ pc = "loop"
    /\ HasRule
    /\ LET rule == configurations.v[idx]
           err == ValidationError(rule)
       IN IF err # NoError
          THEN /\ error' = err
               /\ calls' = Append(calls, RaiseEvent(err))
               /\ pc' = "raised"
               /\ frame' = frame
          ELSE /\ frame' = EmailFrame(rule)
               /\ pc' = "fetch"
               /\ UNCHANGED <<error, calls>>
    /\ UNCHANGED <<configurations, store, idx, runs, otherBatch, caught, logFile, connOpen, delivered, requeued>>

\* HasAlerts that lets an empty batch through
HasAlertsAlways(alerts) == 0 <= Len(alerts)

\* line 124
HasAlerts(alerts) == 0 < Len(alerts)

\* line 122: alerts = self.alert_queue.fetch_alerts(groups); line 124
FetchAlerts ==
    /\ pc = "fetch"
    /\ LET alerts == FetchResult(store, frame.groups) IN
       /\ store' = FetchRemainder(store, frame.groups)
       /\ calls' = Append(calls, Event("fetch_alerts", frame.groups, alerts))
       /\ IF HasAlerts(alerts)
          THEN /\ frame' = [frame EXCEPT !.alerts = alerts]
               /\ pc' = "render"
          ELSE /\ frame' = NoFrame
               /\ pc' = "ok"
    /\ UNCHANGED <<configurations, idx, runs, otherBatch, caught, error, logFile, connOpen, delivered, requeued>>

\* line 125; the dict is the rule's own templateVariables when it has one
InjectAlerts ==
    LET rule == configurations.v[idx]
        variables == WithAlerts(frame.template_variables, frame.alerts)
    IN /\ frame' = [frame EXCEPT !.template_variables = variables]
       /\ configurations' =
            IF Has(rule.templateVariables, "dict")
            THEN [configurations EXCEPT !.v[idx].templateVariables.v = variables]
            ELSE configurations

\* lines 125-140: the attachment is created, written and flushed
RenderAttachment ==
    /\ pc = "render"
    /\ InjectAlerts
    /\ logFile' = WrittenLogFile(frame.alerts)
    /\ calls' = Append(calls, Event("NamedTemporaryFile", frame.alerts, NoError))
    /\ pc' = "open"
    /\ UNCHANGED <<store, idx, runs, otherBatch, caught, error, connOpen, delivered, requeued>>


\* variant of Propagates: the with blocks do not release what they hold
PropagatesLeaking(e, log) ==
    /\ error' = e
    /\ calls' = Append(log, RaiseEvent(e))
    /\ frame' = NoFrame
    /\ UNCHANGED <<logFile, connOpen>>
    /\ pc' = "raised"

\* an exception leaves _process_email_configuration: both with blocks exit
Propagates(e, log) ==
    /\ error' = e
    /\ calls' = Append(log, RaiseEvent(e))
    /\ frame' = NoFrame
    /\ logFile' = Absent
    /\ connOpen' = FALSE
    /\ pc' = "raised"

\* lines 127-140 raise: creating the file fails, or writing to it does
RenderFails ==
    /\ pc = "render"
    /\ \E created \in BOOLEAN :
         Propagates(OtherError,
                    IF created
                    THEN Append(calls, Event("NamedTemporaryFile", frame.alerts, OtherError))
                    ELSE calls)
    /\ configurations' =
         IF Has(configurations.v[idx].templateVariables, "dict")
         THEN [configurations EXCEPT !.v[idx].templateVariables.v =
                    WithAlerts(frame.template_variables, frame.alerts)]
         ELSE configurations
    /\ UNCHANGED <<store, idx, runs, otherBatch, caught, delivered, requeued>>

\* lines 142-171: a call inside the try block raises e
RaisedInTry(op, arg, e) ==
    IF IsCaught(e)
    THEN /\ caught' = e
         /\ calls' = Append(calls, Event(op, arg, e))
         /\ connOpen' = FALSE
         /\ pc' = "except"
         /\ UNCHANGED <<frame, logFile, error>>
    ELSE /\ Propagates(e, Append(calls, Event(op, arg, e)))
         /\ caught' = caught

\* line 143: with Dispatcher(host, port, user, password, encryption)
OpenSucceeds ==
    /\ pc = "open"
    /\ connOpen' = TRUE
    /\ calls' = Append(calls, Event("Dispatcher", DispatcherArguments(frame), NoError))
    /\ pc' = "send"
    /\ UNCHANGED <<configurations, store, idx, runs, otherBatch, frame, caught, error, logFile, delivered, requeued>>

OpenFailsTransport ==
    /\ pc = "open"
    /\ \E e \in TransportErrors : RaisedInTry("Dispatcher", DispatcherArguments(frame), e)
    /\ UNCHANGED <<configurations, store, idx, runs, otherBatch, delivered, requeued>>

OpenFailsOther ==
    /\ pc = "open"
    /\ RaisedInTry("Dispatcher", DispatcherArguments(frame), OtherError)
    /\ UNCHANGED <<configurations, store, idx, runs, otherBatch, delivered, requeued>>

\* lines 144-170: the send returns; both with blocks exit, the rule returns
SendSucceeds ==
    /\ pc = "send"
    /\ calls' = Append(calls, Event(SendOperation(frame), SendArguments(frame), NoError))
    /\ delivered' = delivered \cup Ids(frame.template_variables["alerts"].v)
    /\ connOpen' = FALSE
    /\ logFile' = Absent
    /\ frame' = NoFrame
    /\ pc' = "ok"
    /\ UNCHANGED <<configurations, store, idx, runs, otherBatch, caught, error, requeued>>

SendFailsTransport ==
    /\ pc = "send"
    /\ \E e \in TransportErrors : RaisedInTry(SendOperation(frame), SendArguments(frame), e)
    /\ UNCHANGED <<configurations, store, idx, runs, otherBatch, delivered, requeued>>

SendFailsOther ==
    /\ pc = "send"
    /\ RaisedInTry(SendOperation(frame), SendArguments(frame), OtherError)
    /\ UNCHANGED <<configurations, store, idx, runs, otherBatch, delivered, requeued>>

\* RequeueArgument with the first alert of the batch left out
RequeueArgumentPartial(f) == Tail(f.alerts)

\* line 172: the list handed to add_alerts
RequeueArgument(f) == f.alerts

\* line 172: self.alert_queue.add_alerts(alerts)
AddAlerts ==
    /\ pc = "except"
    /\ store' = AddAlertsResult(store, RequeueArgument(frame))
    /\ calls' = Append(calls, Event("add_alerts", RequeueArgument(frame), NoError))
    /\ requeued' = requeued \cup Ids(RequeueArgument(frame))
    /\ pc' = "reraise"
    /\ UNCHANGED <<configurations, idx, runs, otherBatch, frame, caught, error, logFile, connOpen, delivered>>

\* line 173: raise ConfigurationInvalidError(str(error))
RaiseInvalid ==
    /\ pc = "reraise"
    /\ Propagates(ConfigurationInvalidError(StrOfError(caught)), calls)
    /\ caught' = NoError
    /\ UNCHANGED <<configurations, store, idx, runs, otherBatch, delivered, requeued>>

\* line 37: print(' - OK'), and the loop goes on
PrintOK ==
    /\ pc = "ok"
    /\ calls' = Append(calls, Event("print", " - OK", NoError))
    /\ idx' = idx + 1
    /\ pc' = "loop"
    /\ UNCHANGED <<configurations, store, runs, otherBatch, frame, caught, error, logFile, connOpen, delivered, requeued>>

\* HandleRaised that handles every exception like _DataAlreadyExistError
HandleRaisedSwallowing ==
    /\ pc = "raised"
    /\ calls' = Append(calls, Event("print", " - EXISTS", NoError))
    /\ idx' = idx + 1
    /\ error' = NoError
    /\ pc' = "loop"
    /\ UNCHANGED <<configurations, store, runs, otherBatch, frame, caught, logFile, connOpen, delivered, requeued>>


\* HandleRaised without the except clause: every exception leaves run
HandleRaisedNoExcept ==
    /\ pc = "raised"
    /\ pc' = "aborted"
    /\ UNCHANGED <<calls, idx, error>>
    /\ UNCHANGED <<configurations, store, runs, otherBatch, frame, caught, logFile, connOpen, delivered, requeued>>

\* lines 35-39: the try of the loop; only _DataAlreadyExistError is handled
HandleRaised ==
    /\ pc = "raised"
    /\ IF IsDataAlreadyExist(error)
       THEN /\ calls' = Append(calls, Event("print", " - EXISTS", NoError))
            /\ idx' = idx + 1
            /\ error' = NoError
            /\ pc' = "loop"
       ELSE /\ pc' = "aborted"
            /\ UNCHANGED <<calls, idx, error>>
    /\ UNCHANGED <<configurations, store, runs, otherBatch, frame, caught, logFile, connOpen, delivered, requeued>>

\* lines 32-34, 41: no list or no more rules: print the completion line
Completed ==
    /\ pc = "loop"
    /\ ~HasRule
    /\ calls' = Append(calls, Event("print", "completed", NoError))
    /\ pc' = "completed"
    /\ UNCHANGED <<configurations, store, idx, runs, otherBatch, frame, caught, error, logFile, connOpen, delivered, requeued>>

\* the external runner invokes run again (lines 25-33)
InvokeRun ==
    /\ pc \in {"completed", "aborted"}
    /\ pc' = "loop"
    /\ idx' = 1
    /\ runs' = IF runs < MaxRuns THEN runs + 1 ELSE runs
    /\ calls' = <<>>
    /\ error' = NoError
    /\ UNCHANGED <<configurations, store, frame, caught, logFile, connOpen, delivered, requeued, otherBatch>>

Next ==
    \/ ProcessConfiguration
    \/ FetchAlerts
    \/ RenderAttachment
    \/ RenderFails
    \/ OpenSucceeds
    \/ OpenFailsTransport
    \/ OpenFailsOther
    \/ SendSucceeds
    \/ SendFailsTransport
    \/ SendFailsOther
    \/ AddAlerts
    \/ RaiseInvalid
    \/ PrintOK
    \/ HandleRaised
    \/ Completed
    \/ InvokeRun

Spec == Init /\ [][Next]_vars

ValSpec == ValInit /\ [][Next]_vars

(***************************************************************************)
(* Repeated runs over valid rules in which every attempt succeeds or fails *)
(* with one of the transport's errors, and the transport, tried again and  *)
(* again, eventually opens and eventually sends.                           *)
(***************************************************************************)
LiveNext ==
    \/ ProcessConfiguration
    \/ FetchAlerts
    \/ RenderAttachment
    \/ OpenSucceeds
    \/ OpenFailsTransport
    \/ SendSucceeds
    \/ SendFailsTransport
    \/ AddAlerts
    \/ RaiseInvalid
    \/ PrintOK
    \/ HandleRaised
    \/ Completed
    \/ InvokeRun

LiveSpec ==
    /\ LiveInit
    /\ [][LiveNext]_vars
    /\ WF_vars(LiveNext)
    /\ SF_vars(OpenSucceeds)
    /\ SF_vars(SendSucceeds)

(***************************************************************************)
(* What the record of the current run says about rule i.                   *)
(***************************************************************************)
SendOps == {"send_text_email", "send_html_email", "send_email"}

TransportOps == SendOps \cup {"Dispatcher"}

CallsOf(i, ops) == {n \in DOMAIN calls : calls[n].rule = i /\ calls[n].op \in ops}

\* the calls of the transport for rule i that raised a connection error or a
\* dispatcher error
TransportFailures(i) ==
    {n \in CallsOf(i, TransportOps) :
        calls[n].res.type \in {"ConnectionError", "DispatcherException"}}

SuccessfulSends(i) == {n \in CallsOf(i, SendOps) : calls[n].res.type = "None"}

\* the batch fetch_alerts returned for rule i in this run
Fetched(i) ==
    IF CallsOf(i, {"fetch_alerts"}) = {}
    THEN <<>>
    ELSE calls[CHOOSE n \in CallsOf(i, {"fetch_alerts"}) : TRUE].res

ReportedOK(i) == \E n \in CallsOf(i, {"print"}) : calls[n].arg = " - OK"

RulesSeen == {calls[n].rule : n \in DOMAIN calls}

RuleEnded == pc \in {"raised", "aborted"}

(***************************************************************************)
(* C1.  Whenever the processing of a rule has fetched a non-empty batch    *)
(* and then ends without success, whatever the failure was, the store      *)
(* holds every fetched alert again, exactly once and with the same         *)
(* content.                                                                *)
(***************************************************************************)
C1_FailedRuleRestoresBatch ==
    RuleEnded =>
        \A j \in DOMAIN Fetched(idx) :
            /\ Copies(store, Fetched(idx)[j]) = 1
            /\ \E k \in DOMAIN store : store[k] = Fetched(idx)[j]

(***************************************************************************)
(* C2.  When opening the connection or a send fails with a connection      *)
(* error or a dispatcher error, add_alerts is called exactly once, with    *)
(* the complete fetched batch, and only then ConfigurationInvalidError is  *)
(* raised with the text of the underlying error; the rule never reports    *)
(* OK.                                                                     *)
(***************************************************************************)
C2_TransportFailureRequeuesAll ==
    \A i \in RulesSeen : \A n \in TransportFailures(i) :
        LET requeues == CallsOf(i, {"add_alerts"})
            raises == CallsOf(i, {"raise"})
        IN /\ Cardinality(requeues) <= 1
           /\ \A m \in requeues : m > n /\ calls[m].arg = Fetched(i)
           /\ \A m \in raises :
                 /\ calls[m].arg.type = "ConfigurationInvalidError"
                 /\ calls[m].arg.msg = calls[n].res.msg
                 /\ \E q \in requeues : q < m
           /\ RuleEnded => /\ raises # {}
                           /\ error.type = "ConfigurationInvalidError"
                           /\ error.msg = calls[n].res.msg
           /\ ~ReportedOK(i)

C2_Witness ==
    /\ pc = "aborted"
    /\ TransportFailures(idx) # {}
    /\ Len(Fetched(idx)) >= 2
    /\ \A j \in DOMAIN Fetched(idx) : Copies(store, Fetched(idx)[j]) = 1

(***************************************************************************)
(* C3.  For a valid rule with pending alerts whose send succeeds: exactly  *)
(* one send is made for the rule, with exactly the fetched batch as its    *)
(* alerts; add_alerts is not called; the store holds no pending alert of   *)
(* the rule's groups; and run reports OK for the rule.                     *)
(***************************************************************************)
C3_SuccessfulSendConsumes ==
    \A i \in RulesSeen : \A n \in SuccessfulSends(i) :
        /\ Cardinality(CallsOf(i, SendOps)) = 1
        /\ Len(Fetched(i)) > 0
        /\ calls[n].arg.variables["alerts"] = PyList(Fetched(i))
        /\ CallsOf(i, {"add_alerts"}) = {}
        /\ FetchResult(store, configurations.v[i].groups.v) = <<>>
        /\ \/ pc = "ok" /\ idx = i
           \/ ReportedOK(i)

C3_Witness ==
    /\ pc = "completed"
    /\ \E i \in RulesSeen : \E n \in SuccessfulSends(i) :
          /\ Len(Fetched(i)) >= 2
          /\ ReportedOK(i)
          /\ Ids(Fetched(i)) \subseteq delivered

(***************************************************************************)
(* C4.  At-least-once delivery.  When run is invoked again and again over  *)
(* valid rules, every attempt succeeds or fails with a transport error,    *)
(* and the transport eventually succeeds: no alert leaves both the store   *)
(* and the batch in flight without having been part of a successful send,  *)
(* and every alert pending in the groups of a rule is eventually part of a *)
(* successful send.                                                        *)
(***************************************************************************)
InFlight(i) == frame.live /\ i \in Ids(frame.alerts)

Held(i) == i \in Ids(store) \/ InFlight(i)

RuleGroups ==
    UNION { Range(configurations.v[i].groups.v) : i \in DOMAIN configurations.v }

PendingForSomeRule(i) == i \in Ids(store) /\ AlertRec(i).group \in RuleGroups

C4_AtLeastOnce ==
    /\ [][\A i \in 1..NumAlerts : Held(i) => (Held(i)' \/ i \in delivered')]_vars
    /\ \A i \in 1..NumAlerts : PendingForSomeRule(i) ~> (i \in delivered)

\* an alert that was handed back after a failed attempt has been delivered
C4_Witness ==
    /\ pc = "ok"
    /\ \E i \in requeued \cap delivered : ~Held(i)

(***************************************************************************)
(* Validation claims: the run is over the single rule TheRule.             *)
(***************************************************************************)
TheRule == configurations.v[1]

IsEmail(rule) == Has(rule.type, "str") /\ rule.type.v = "email"

\* field f of the rule is absent or of the wrong type, where the rule has it
Offending(rule, f) ==
    CASE f = "smtp" -> ~Has(rule.smtp, "dict")
      [] f = "host" -> Has(rule.smtp, "dict") /\ ~Has(rule.smtp.v.host, "str")
      [] f = "port" -> Has(rule.smtp, "dict") /\ ~Has(rule.smtp.v.port, "int")
      [] f = "user" -> Has(rule.smtp, "dict") /\ ~Has(rule.smtp.v.user, "str")
      [] f = "password" -> Has(rule.smtp, "dict") /\ ~Has(rule.smtp.v.password, "str")
      [] f = "subject" -> ~Has(rule.subject, "str")
      [] f = "fromEmail" -> ~Has(rule.fromEmail, "str")
      [] f = "toEmail" -> ~Has(rule.toEmail, "str") /\ ~Has(rule.toEmail, "list")
      [] f = "template" -> ~Has(rule.templateHtml, "str") /\ ~Has(rule.templateText, "str")
      [] f = "groups" -> ~Has(rule.groups, "list")

Precedence ==
    <<"smtp", "host", "port", "user", "password", "subject", "fromEmail", "toEmail",
      "template", "groups">>

RequiredFieldOffending(rule) == \E k \in DOMAIN Precedence : Offending(rule, Precedence[k])

FirstOffending(rule) ==
    Precedence[CHOOSE k \in DOMAIN Precedence :
                  /\ Offending(rule, Precedence[k])
                  /\ \A j \in 1..(k - 1) : ~Offending(rule, Precedence[j])]

OnlyRaises == \A n \in DOMAIN calls : calls[n].op = "raise"

NothingTouched ==
    /\ pc \in {"loop", "raised", "aborted"}
    /\ OnlyRaises
    /\ store = AllAlerts
    /\ delivered = {} /\ requeued = {}
    /\ logFile = Absent /\ ~connOpen

(***************************************************************************)
(* C5.  An email rule in which a required field is absent or of the wrong  *)
(* type fails with ConfigurationMissingError, and fetch_alerts, add_alerts *)
(* and the transport are not called: the store is unchanged.               *)
(***************************************************************************)
C5_ValidationBeforeEffects ==
    (IsEmail(TheRule) /\ RequiredFieldOffending(TheRule)) =>
        /\ NothingTouched
        /\ RuleEnded => error.type = "ConfigurationMissingError"

C5_Witness ==
    /\ pc = "aborted"
    /\ IsEmail(TheRule)
    /\ FirstOffending(TheRule) = "groups"
    /\ error.type = "ConfigurationMissingError"
    /\ store = AllAlerts

(***************************************************************************)
(* C6.  Validation of an email rule raises exactly one error, the one for  *)
(* the earliest offending field in the order smtp (host, port, user,       *)
(* password), subject, fromEmail, toEmail, template(s), groups.            *)
(***************************************************************************)
\* the field an error message names
FieldNamed(e) ==
    CASE e.msg[1] = "Missing smtp configuration" -> "smtp"
      [] e.msg[1] = "Missing host in alert mail smtp configuration" -> "host"
      [] e.msg[1] = "Missing port in alert mail smtp configuration" -> "port"
      [] e.msg[1] = "Missing user in alert mail smtp configuration" -> "user"
      [] e.msg[1] = "Missing password in alert mail smtp configuration" -> "password"
      [] e.msg[1] = "Missing subject in alert configuration" -> "subject"
      [] e.msg[1] = "Missing from email in alert configuration" -> "fromEmail"
      [] e.msg[1] = "Missing to email in alert configuration" -> "toEmail"
      [] e.msg[1] = "You at least have to provide a html or text email template" -> "template"
      [] e.msg[1] = "Missing groups to fetch alerts for" -> "groups"
      [] OTHER -> "none"

C6_ErrorOfEarliestOffendingField ==
    (IsEmail(TheRule) /\ RequiredFieldOffending(TheRule) /\ RuleEnded) =>
        /\ Cardinality(CallsOf(1, {"raise"})) = 1
        /\ error.type = "ConfigurationMissingError"
        /\ FieldNamed(error) = FirstOffending(TheRule)

(***************************************************************************)
(* C7.  The type is checked before any other field, whatever the other     *)
(* fields hold and without any call of the store or the transport: a rule  *)
(* whose type is absent or is not a string fails with                      *)
(* ConfigurationMissingError, a rule whose type is a string other than     *)
(* "email" fails with ConfigurationInvalidError, and only a rule of type   *)
(* "email" reaches the validation of the email fields.                     *)
(***************************************************************************)
IsTypeError(e) ==
    \/ e.msg = <<"Missing \"type\" for alert dispatch configuration">>
    \/ e.msg[1] = "Invalid alert type \""

C7_TypeCheckedFirst ==
    /\ ~IsEmail(TheRule) => NothingTouched
    /\ RuleEnded =>
        /\ ~Has(TheRule.type, "str") =>
              /\ error.type = "ConfigurationMissingError"
              /\ IsTypeError(error)
        /\ (Has(TheRule.type, "str") /\ TheRule.type.v # "email") =>
              /\ error.type = "ConfigurationInvalidError"
              /\ IsTypeError(error)
        /\ IsEmail(TheRule) => ~IsTypeError(error)

C7_Witness ==
    /\ pc = "aborted"
    /\ Has(TheRule.type, "str") /\ TheRule.type.v = "sms"
    /\ Offending(TheRule, "smtp") /\ Offending(TheRule, "groups")
    /\ error.type = "ConfigurationInvalidError"

\* C7 as claimed: a type that is present but is not "email", whatever it is,
\* fails with ConfigurationInvalidError
C7_PresentUnknownTypeIsInvalid ==
    RuleEnded =>
        /\ TheRule.type.t = "absent" => error.type = "ConfigurationMissingError"
        /\ (TheRule.type.t # "absent" /\ ~IsEmail(TheRule)) =>
              error.type = "ConfigurationInvalidError"

(***************************************************************************)
(* C8.  A failing rule aborts the run.  Rules are processed in list order, *)
(* a rule reaching its end (its requeue included) before the first         *)
(* operation of the next; when rule i raises ConfigurationMissingError or  *)
(* ConfigurationInvalidError the error propagates out of run, nothing is   *)
(* fetched, sent or requeued for a later rule, and the alerts consumed by  *)
(* the rules before i stay consumed.                                       *)
(***************************************************************************)
ConfigurationErrors == {"ConfigurationMissingError", "ConfigurationInvalidError"}

InListOrder ==
    \A m, n \in DOMAIN calls :
        m < n => /\ calls[m].rule <= calls[n].rule
                 /\ calls[m].op \in {"print", "raise"} => calls[m].rule < calls[n].rule

NothingAfterFailedRule ==
    (RuleEnded /\ error.type \in ConfigurationErrors) =>
        /\ \A n \in DOMAIN calls : calls[n].rule <= idx
        /\ calls[Len(calls)] = RaiseEvent(error)
        /\ \A i \in 1..(idx - 1) : \A n \in SuccessfulSends(i) :
              /\ Ids(Fetched(i)) \subseteq delivered
              /\ Ids(Fetched(i)) \cap Ids(store) = {}

ErrorLeavesRun ==
    (pc = "raised" /\ error.type \in ConfigurationErrors) =>
        /\ pc' = "aborted"
        /\ UNCHANGED <<error, idx, calls, store, delivered, requeued>>

C8_FailingRuleAbortsRun ==
    /\ [](InListOrder /\ NothingAfterFailedRule)
    /\ [][ErrorLeavesRun]_vars

\* rule 2 of three fails after rule 1 has sent its alerts, and rule 3 has
\* alerts pending that are left alone
C8_Witness ==
    /\ pc = "aborted"
    /\ idx = 2
    /\ Has(configurations, "list")
    /\ Len(configurations.v) = 3
    /\ SuccessfulSends(1) # {}
    /\ ValidationError(configurations.v[3]) = NoError
    /\ FetchResult(store, configurations.v[3].groups.v) # <<>>
    /\ error.type \in ConfigurationErrors

(***************************************************************************)
(* C9.  An empty fetch is a no-op: no connection is opened, nothing is     *)
(* sent or requeued, no attachment is created, the rule reports OK and     *)
(* the next rule is processed; run after run over an empty queue reports   *)
(* OK for every valid rule and leaves the store empty.                     *)
(***************************************************************************)
EmptyFetchIsNoOp ==
    \A n \in DOMAIN calls :
        (calls[n].op = "fetch_alerts" /\ calls[n].res = <<>>) =>
            LET i == calls[n].rule IN
            /\ CallsOf(i, TransportOps \cup {"add_alerts", "NamedTemporaryFile", "raise"}) = {}
            /\ n = Len(calls) => /\ pc = "ok" /\ idx = i
                                 /\ logFile = Absent /\ ~connOpen
            /\ n < Len(calls) =>
                  calls[n + 1] = [Event("print", " - OK", NoError) EXCEPT !.rule = i]
            /\ n + 1 = Len(calls) => idx = i + 1 /\ pc \in {"loop", "fetch"}

EmptyQueueRun ==
    /\ store = <<>>
    /\ ~(frame.live /\ frame.alerts # <<>>)
    /\ \A i \in RulesSeen : \A n \in CallsOf(i, {"fetch_alerts"}) : calls[n].res = <<>>

EmptyQueueRunsReportOK ==
    (EmptyQueueRun /\ Has(configurations, "list")) =>
        /\ pc \notin {"render", "open", "send", "except", "reraise"}
        /\ RuleEnded => ValidationError(configurations.v[idx]) # NoError
        /\ \A i \in 1..(idx - 1) : ReportedOK(i)

C9_EmptyFetchIsNoOp == EmptyFetchIsNoOp /\ EmptyQueueRunsReportOK

\* the second run over two valid rules and an empty queue has completed
C9_Witness ==
    /\ runs = 2
    /\ pc = "completed"
    /\ store = <<>>
    /\ delivered = {}
    /\ Has(configurations, "list")
    /\ Len(configurations.v) = 2
    /\ \A i \in 1..2 : Fetched(i) = <<>> /\ CallsOf(i, {"fetch_alerts"}) # {} /\ ReportedOK(i)

(***************************************************************************)
(* C10.  For a valid rule with a non-empty fetch at most one send          *)
(* operation is called, at most once, chosen by the templates the rule     *)
(* provides as strings: the text-only send iff only templateText is one,   *)
(* the html-only send iff only templateHtml is one, the combined send iff  *)
(* both are; no send is given a template path that is absent.              *)
(***************************************************************************)
Provides(val) == Has(val, "str")

C10_SendChosenByTemplates ==
    \A i \in RulesSeen :
        /\ Cardinality(CallsOf(i, SendOps)) <= 1
        /\ \A n \in CallsOf(i, SendOps) :
              LET html == configurations.v[i].templateHtml
                  text == configurations.v[i].templateText
              IN /\ calls[n].op = "send_text_email" <=> (Provides(text) /\ ~Provides(html))
                 /\ calls[n].op = "send_html_email" <=> (Provides(html) /\ ~Provides(text))
                 /\ calls[n].op = "send_email" <=> (Provides(html) /\ Provides(text))
                 /\ calls[n].arg.templates =
                       (IF Provides(html) THEN <<html>> ELSE <<>>)
                       \o (IF Provides(text) THEN <<text>> ELSE <<>>)
                 /\ Len(Fetched(i)) > 0

C10_Witness ==
    /\ pc = "ok"
    /\ \E n \in CallsOf(1, SendOps) :
          /\ calls[n].op = "send_html_email"
          /\ TheRule.templateText = Mistyped
          /\ calls[n].res = NoError

\* C10 as claimed: the send is chosen by which template keys are present
Present(val) == val.t # "absent"

C10_SendChosenByPresentTemplates ==
    \A i \in RulesSeen : \A n \in CallsOf(i, SendOps) :
        LET html == configurations.v[i].templateHtml
            text == configurations.v[i].templateText
        IN /\ calls[n].op = "send_text_email" <=> (Present(text) /\ ~Present(html))
           /\ calls[n].op = "send_html_email" <=> (Present(html) /\ ~Present(text))
           /\ calls[n].op = "send_email" <=> (Present(html) /\ Present(text))

\* ---------------------------------------------------------------------
\* C11  scoped resources (lines 127-173)

\* rule processing is over: it returned, or its exception left the method
RuleProcessingOver == pc \in {"ok", "raised", "aborted", "completed", "loop"}

\* the file of the attachment exists with one written line per alert of the
\* batch, and the writes are flushed
AttachmentReady ==
    /\ logFile # Absent
    /\ logFile.flushed
    /\ Len(logFile.lines) = Len(frame.alerts)

\* C11: whenever the processing of a rule is over (it succeeded, a send or
\* the connection failed, or any other exception left it) the connection is
\* closed and the temporary attachment file is removed; while the
\* connection is open for a send the attachment file exists, is fully
\* written and is flushed.
C11_ScopedResourcesReleased ==
    /\ RuleProcessingOver => (~connOpen /\ logFile = Absent)
    /\ connOpen => (pc = "send" /\ AttachmentReady)
    /\ pc = "send" => (connOpen /\ AttachmentReady)

\* a send raised an exception that is not a transport error, and the run
\* ended with the connection closed and the file removed
C11_Witness ==
    /\ pc = "aborted"
    /\ error = OtherError
    /\ \E n \in DOMAIN calls : calls[n].op \in SendOps /\ calls[n].res = OtherError
    /\ ~connOpen
    /\ logFile = Absent

\* ---------------------------------------------------------------------
\* C12  the groups of a rule that reaches the fetch (lines 117-122)

\* the group lists fetch_alerts was called with in this run
FetchedGroups == {calls[n].arg : n \in CallsOf(1, {"fetch_alerts"})}

EmptyGroups(rule) == rule.groups = PyList(<<>>)

\* C12: every rule that passes validation and reaches the fetch has a
\* non-empty list of groups: fetch_alerts is never called with an empty
\* list, and a rule whose groups is the empty list is rejected with a
\* configuration error before anything is fetched.
C12_FetchedGroupsNonEmpty ==
    /\ <<>> \notin FetchedGroups
    /\ pc = "fetch" => frame.groups # <<>>
    /\ EmptyGroups(TheRule) =>
          /\ FetchedGroups = {}
          /\ pc \notin {"fetch", "ok", "completed"}

\* ---------------------------------------------------------------------
\* C13  the variables handed to the send (lines 114-125, 144-170)

\* the rule as configured, before any run wrote into its templateVariables
ConfiguredRule(i) ==
    CHOOSE r \in RuleSamples :
        [r EXCEPT !.templateVariables = Absent] =
        [configurations.v[i] EXCEPT !.templateVariables = Absent]

\* its templateVariables, the empty mapping when it has none
ConfiguredVariables(i) ==
    LET tv == ConfiguredRule(i).templateVariables
    IN IF tv # Absent /\ tv.t = "dict" THEN tv.v ELSE EmptyDict

\* C13: the variables every send is called with bind "alerts" to exactly
\* the list the fetch of the rule returned (same alerts, same order),
\* whatever the rule's templateVariables had under "alerts"; every other
\* key of the rule's templateVariables is passed with its configured value,
\* no key is added, and a rule without templateVariables sends the mapping
\* with "alerts" alone.
C13_SendVariablesBindAlerts ==
    \A n \in DOMAIN calls :
        calls[n].op \in SendOps =>
            LET variables == calls[n].arg.variables
                configured == ConfiguredVariables(calls[n].rule)
            IN /\ DOMAIN variables = DOMAIN configured \cup {"alerts"}
               /\ variables["alerts"] = PyList(Fetched(calls[n].rule))
               /\ \A k \in DOMAIN configured \ {"alerts"} : variables[k] = configured[k]

\* a send for a rule configured with another key and with an "alerts" value
\* that is not the fetched batch, and a send for a rule without
\* templateVariables
C13_Witness ==
    /\ \E n \in DOMAIN calls :
          /\ calls[n].op \in SendOps
          /\ calls[n].res = NoError
          /\ DOMAIN ConfiguredVariables(calls[n].rule) = {"alerts", "title"}
          /\ ConfiguredVariables(calls[n].rule)["alerts"] # PyList(Fetched(calls[n].rule))
    /\ \E n \in DOMAIN calls :
          /\ calls[n].op \in SendOps
          /\ ConfiguredRule(calls[n].rule).templateVariables = Absent

\* ---------------------------------------------------------------------
\* C14  the loop's handler of _DataAlreadyExistError (lines 34-39)

\* lines 12-13: class _DataAlreadyExistError(Exception)
DataAlreadyExistError == [type |-> "_DataAlreadyExistError", msg |-> <<"exists">>]

\* The signal "this rule's alerts were already processed" of the
\* specification's rule state machine, raised at its fetch step. No line of
\* the source raises it; this action stands for the raise the handler of
\* lines 38-39 is written for.
AlreadyProcessed ==
    /\ pc = "fetch"
    /\ Propagates(DataAlreadyExistError, calls)
    /\ UNCHANGED <<configurations, store, idx, runs, otherBatch, caught, delivered, requeued>>

ExistsNext ==
    \/ Next
    \/ AlreadyProcessed

\* the rules of these runs: two valid ones and one that fails validation
ExistsRules == {TextRule, HtmlRule, NoSubjectRule}

ExistsInit ==
    /\ configurations \in {PyList(rules) : rules \in SeqsUpTo(ExistsRules, MaxRules)}
    /\ store \in InitialStores
    /\ InitRest

ExistsSpec == ExistsInit /\ [][ExistsNext]_vars

ReportedEXISTS(i) == \E n \in CallsOf(i, {"print"}) : calls[n].arg = " - EXISTS"

\* the exception of rule i left run
Failed(i) == pc = "aborted" /\ idx = i

\* the outcomes rule i has had in this run
Outcomes(i) ==
    {o \in {"OK", "EXISTS", "FAILED"} :
        \/ o = "OK" /\ ReportedOK(i)
        \/ o = "EXISTS" /\ ReportedEXISTS(i)
        \/ o = "FAILED" /\ Failed(i)}

PrintsOf(i) == CallsOf(i, {"print"})

HasData(alert) == alert.data.t = "dict" /\ DOMAIN alert.data.v # {}

\* "[<ISO date>] <message>", then the line separator
PlainLine(alert) ==
    << [k |-> "text", s |-> "["],
       [k |-> "isoformat", date |-> alert.date],
       [k |-> "text", s |-> "] "],
       [k |-> "text", s |-> alert.message],
       [k |-> "text", s |-> "linesep"] >>

\* "[<ISO date>] <message> | <data>", then the line separator
DataLine(alert) ==
    << [k |-> "text", s |-> "["],
       [k |-> "isoformat", date |-> alert.date],
       [k |-> "text", s |-> "] "],
       [k |-> "text", s |-> alert.message],
       [k |-> "text", s |-> " | "],
       [k |-> "str", data |-> alert.data.v],
       [k |-> "text", s |-> "linesep"] >>

\* the lines are those of the alerts, one each, in their order
LinesOf(lines, alerts) ==
    /\ Len(lines) = Len(alerts)
    /\ \A j \in 1..Len(alerts) :
          lines[j] = IF HasData(alerts[j]) THEN DataLine(alerts[j]) ELSE PlainLine(alerts[j])

\* C15: the attachment file holds exactly one line per fetched alert, in
\* the order of the fetch: "[<ISO date>] <message>", followed by
\* " | <data>" exactly when the alert's data is a non-empty mapping, and
\* ended by the line separator; the file every send attaches is that file.
C15_AttachmentLines ==
    /\ logFile # Absent => LinesOf(logFile.lines, Fetched(idx))
    /\ \A n \in DOMAIN calls :
          calls[n].op \in SendOps =>
              LinesOf(calls[n].arg.attachments.file.lines, Fetched(calls[n].rule))

\* a send whose attachment has a line with data, one for an alert with an
\* empty mapping and one for an alert without data
C15_Witness ==
    \E n \in DOMAIN calls :
        /\ calls[n].op \in SendOps
        /\ calls[n].res = NoError
        /\ LET alerts == Fetched(calls[n].rule)
           IN /\ Len(alerts) = 3
              /\ \E j \in 1..3 : HasData(alerts[j])
              /\ \E j \in 1..3 : alerts[j].data = PyDict(EmptyDict)
              /\ \E j \in 1..3 : alerts[j].data = NoneVal

\* ---------------------------------------------------------------------
\* C16  the run next to another consumer of the same queue (lines 122-173)
\*
\* The other consumer is a second orchestrator run seen from the queue: it
\* fetches the pending alerts of some groups in one atomic step, and then
\* either sends them or hands them back in one atomic step. Its steps
\* interleave freely with the steps of the run.

OtherGroups == {<<"g1">>, <<"g2">>, <<"g1", "g2">>}

\* the other consumer's fetch_alerts(groups)
OtherFetch ==
    /\ otherBatch = <<>>
    /\ \E groups \in OtherGroups :
          /\ FetchResult(store, groups) # <<>>
          /\ otherBatch' = FetchResult(store, groups)
          /\ store' = FetchRemainder(store, groups)
    /\ UNCHANGED <<configurations, pc, idx, runs, frame, caught, error, logFile,
                   connOpen, calls, delivered, requeued>>

\* the other consumer's send succeeds
OtherSend ==
    /\ otherBatch # <<>>
    /\ delivered' = delivered \cup Ids(otherBatch)
    /\ otherBatch' = <<>>
    /\ UNCHANGED <<configurations, store, pc, idx, runs, frame, caught, error,
                   logFile, connOpen, calls, requeued>>

\* the other consumer's add_alerts(alerts) after a transport failure
OtherRequeue ==
    /\ otherBatch # <<>>
    /\ store' = AddAlertsResult(store, otherBatch)
    /\ otherBatch' = <<>>
    /\ UNCHANGED <<configurations, pc, idx, runs, frame, caught, error, logFile,
                   connOpen, calls, delivered, requeued>>

\* the rules of the concurrent runs: all valid, over both groups
ConcRules == {TextRule, HtmlRule, BothRule}

\* every alert is pending when the two start
ConcInit ==
    /\ configurations \in {PyList(rules) : rules \in SeqsUpTo(ConcRules, MaxRules)}
    /\ store = AllAlerts
    /\ InitRest

ConcNext ==
    \/ Next
    \/ OtherFetch
    \/ OtherSend
    \/ OtherRequeue

ConcSpec == ConcInit /\ [][ConcNext]_vars

\* the run has fetched alert i and has neither sent it nor handed it back
HeldByRun(i) == InFlight(i) /\ pc # "reraise"

HeldByOther(i) == i \in Ids(otherBatch)

\* the places alert i is in
PlacesOf(i) ==
    {p \in {"store", "run", "other", "consumed"} :
        \/ p = "store" /\ i \in Ids(store)
        \/ p = "run" /\ HeldByRun(i)
        \/ p = "other" /\ HeldByOther(i)
        \/ p = "consumed" /\ i \in delivered}

\* C16: with the run and another consumer interleaved on one queue whose
\* fetch and requeue are atomic, every alert is at every moment in exactly
\* one place: pending in the queue, in the batch of exactly one of the two,
\* or consumed by a successful send. No alert is held by both, and the
\* queue never holds two copies of an alert.
C16_EveryAlertInOnePlace ==
    \A i \in 1..NumAlerts :
        /\ Cardinality(PlacesOf(i)) = 1
        /\ ~(HeldByRun(i) /\ HeldByOther(i))
        /\ Copies(store, AlertRec(i)) <= 1

\* ---------------------------------------------------------------------
\* C17  the outcomes rule processing produces (lines 12-13, 34-39, 43-173)

\* the validation of rule i passed: the run fetched for it
ReachedFetch(i) == CallsOf(i, {"fetch_alerts"}) # {}

\* OK is printed only for a rule that passed validation and whose fetch was
\* empty or whose send succeeded
OKOnlyAfterSuccess ==
    \A i \in RulesSeen :
        ReportedOK(i) =>
            /\ ReachedFetch(i)
            /\ Fetched(i) = <<>> \/ SuccessfulSends(i) # {}

\* the entries of calls whose result is an exception, or no exception
RaisingOps == TransportOps \cup {"NamedTemporaryFile", "raise"}

\* _DataAlreadyExistError is never raised and EXISTS is never printed
ExistsNeverReported ==
    /\ error.type # "_DataAlreadyExistError"
    /\ caught.type # "_DataAlreadyExistError"
    /\ \A n \in DOMAIN calls :
          /\ calls[n].op \in RaisingOps => calls[n].res.type # "_DataAlreadyExistError"
          /\ ~(calls[n].op = "print" /\ calls[n].arg = " - EXISTS")

\* the exceptions raised in this run, with the ones propagating now
RaisedTypes == {calls[n].res.type : n \in CallsOf(idx, {"raise"})} \cup {error.type}

====
